---- MODULE Spec2Model ----
(***************************************************************************)
(* Model of the movement-classification engine of src/main.py:             *)
(* carregar_base_conhecimento, analisar_movimentacoes_mes,                 *)
(* calcular_stats_participantes and analisar_movimentacoes_periodo.        *)
(*                                                                         *)
(* A DataFrame is a sequence of rows (records); its columns are the        *)
(* fields NOME (the column 'CODIGO ORGANIZACAO NOME'), PLANO, ANO_MES,     *)
(* COD ('CODIGO BENEFICIO') and MOV ('MOVIMENTO'), and for an analysed     *)
(* frame also IDX (the index label, the position of the row in df_mov),    *)
(* ANALISE, GRAVIDADE and TIPO_PASSO.  A participant key is an integer, so *)
(* that groupby's ordering of the keys is the ordering of the integers.    *)
(* The column PLANO is present.                                            *)
(***************************************************************************)
EXTENDS Integers, Sequences, FiniteSets, TLC

(***************************************************************************)
(* Bounds of the explored inputs.                                          *)
(***************************************************************************)
\* largest number of distinct (code, direction) rows of a one-participant input
MaxCods == 3
\* largest number of rows of an input with several plans, participants or months
MaxRecs == 3
\* largest number of entry codes, and of exit codes, of the groups searched
\* for a use of a rule
MaxConj == 2

(***************************************************************************)
(* carregar_base_conhecimento                                              *)
(***************************************************************************)
CODIGO == <<11100, 11200, 16000, 15000, 14000, 13000, 12000, 21000, 22000,
            23000, 24100, 24200, 31100, 31200, 31300, 31000, 32000, 33000, 34000>>

CODIGOS_RUIDO_SAIDA == {31100, 31200, 31300, 31000, 32000, 33000, 11000, 14000}

CODIGOS_ADMISSAO == {31100, 31200}

CODIGOS_ATIVOS == {31100, 31200, 31300}

CODIGOS_ENTRADA_INDEPENDENTE == {13000, 24100, 24200}

regras_validas ==
    { <<31100, 11100>>, <<31200, 11100>>, <<31300, 11100>>, <<21000, 11100>>, <<22000, 11100>>,
      <<31100, 11200>>, <<31200, 11200>>, <<31300, 11200>>, <<12000, 11200>>, <<21000, 11200>>,
      <<22000, 11200>>,
      <<31100, 12000>>, <<31200, 12000>>, <<31300, 12000>>, <<22000, 12000>>,
      <<31100, 13000>>, <<31200, 13000>>, <<31300, 13000>>, <<11100, 13000>>, <<11200, 13000>>,
      <<31100, 14000>>, <<31200, 14000>>, <<31300, 14000>>, <<11100, 14000>>, <<11200, 14000>>,
      <<22000, 14000>>,
      <<31100, 15000>>, <<31200, 15000>>, <<31300, 15000>>, <<11100, 15000>>, <<11200, 15000>>,
      <<14000, 15000>>, <<21000, 15000>>, <<22000, 15000>>,
      <<31100, 16000>>, <<31200, 16000>>, <<31300, 16000>>, <<11100, 16000>>, <<11200, 16000>>,
      <<21000, 16000>>, <<22000, 16000>>,
      <<31100, 21000>>, <<31200, 21000>>, <<31300, 21000>>, <<22000, 21000>>,
      <<31100, 22000>>, <<31200, 22000>>, <<31300, 22000>>,
      <<31100, 23000>>, <<31200, 23000>>, <<31300, 23000>>, <<21000, 23000>>, <<22000, 23000>>,
      <<31100, 24100>>, <<31200, 24100>>, <<31300, 24100>>, <<21000, 24100>>, <<22000, 24100>>,
      <<31100, 24200>>, <<31200, 24200>>, <<31300, 24200>>, <<21000, 24200>>, <<22000, 24200>>,
      <<11100, 24200>>, <<11200, 24200>>,
      <<31200, 31100>>, <<12000, 31100>>, <<22000, 31100>>,
      <<31100, 31200>>, <<12000, 31200>>, <<22000, 31200>>,
      <<31100, 31300>>, <<31200, 31300>>, <<21000, 31300>>, <<22000, 31300>> }

\* the codes of the catalog
Catalogo == {CODIGO[i] : i \in DOMAIN CODIGO}

\* get_descricao: the description of a catalog code is identified with the
\* row of the catalog that holds it (the 19 descriptions are pairwise
\* different); the placeholder 'Código Desconhecido (c)' is modelled as -c.
get_descricao(codigo) ==
    IF codigo \in Catalogo
    THEN CHOOSE i \in DOMAIN CODIGO : CODIGO[i] = codigo
    ELSE 0 - codigo

(***************************************************************************)
(* Helpers for messages, sets and frames                                   *)
(***************************************************************************)
\* A message text: prefixo is the text before the first colon ("ERRO", "INFO",
\* "OK"; the bare string 'OK' has prefixo "OK" and an empty texto, the empty
\* string '' has an empty prefixo), texto the rest of the template (in ASCII)
\* and args the values formatted into it.
Msg(prefixo, texto, args) == [prefixo |-> prefixo, texto |-> texto, args |-> args]

MsgOK == Msg("OK", "", <<>>)

MsgVazia == Msg("", "", <<>>)

\* sorted(s): the elements of a set of integers in ascending order
RECURSIVE sorted(_)
sorted(S) ==
    IF S = {} THEN <<>>
    ELSE LET m == CHOOSE x \in S : \A y \in S : x <= y
         IN <<m>> \o sorted(S \ {m})

Range(s) == {s[i] : i \in DOMAIN s}

\* an assignment that reaches every row of the frame
Marcar_todas(df, I, msg, gravidade) ==
    [i \in DOMAIN df |-> [df[i] EXCEPT !.ANALISE = msg, !.GRAVIDADE = gravidade]]

\* df.loc[I, 'ANALISE'] = msg ; df.loc[I, 'GRAVIDADE'] = gravidade
Marcar(df, I, msg, gravidade) ==
    [i \in DOMAIN df |->
        IF i \in I THEN [df[i] EXCEPT !.ANALISE = msg, !.GRAVIDADE = gravidade]
        ELSE df[i]]

\* stats[k] += 1
Inc(st, k) == [st EXCEPT ![k] = @ + 1]

\* the positions of the rows of one participant: grouped.get_group(nome).index
Grupo(df, nome) == {i \in DOMAIN df : df[i].NOME = nome}

\* set(entradas['CODIGO BENEFICIO'])
codigos_entrada_set(df, G) == {df[i].COD : i \in {j \in G : df[j].MOV = "ENTRADA"}}

\* set(saidas['CODIGO BENEFICIO'])
codigos_saida_set(df, G) == {df[i].COD : i \in {j \in G : df[j].MOV = "SAIDA"}}

(***************************************************************************)
(* analisar_movimentacoes_mes: the body of the loop over the groups        *)
(***************************************************************************)
\* Validacao 1: the loop over the plans of the group.  Its `continue` leaves
\* only the iteration of the loop over the plans, so the rest of the body of
\* the loop over the groups still runs afterwards.
PlanosComMultiplosAtivos(df, G) ==
    {p \in {df[i].PLANO : i \in G} :
        Cardinality({df[i].COD : i \in {j \in G : df[j].PLANO = p /\ df[j].MOV = "ENTRADA"}}
                    \cap CODIGOS_ATIVOS) > 1}

Validacao1(df, st, G) ==
    LET ruins == PlanosComMultiplosAtivos(df, G)
    IN [df |-> [i \in DOMAIN df |->
                  IF i \in G /\ df[i].PLANO \in ruins
                  THEN [df[i] EXCEPT
                          !.ANALISE = Msg("ERRO", "Multiplas situacoes ativas no Plano {plano}",
                                          <<df[i].PLANO>>),
                          !.GRAVIDADE = "ERRO"]
                  ELSE df[i]],
        st |-> [st EXCEPT !.erros = @ + Cardinality(ruins)]]

\* Validacoes 1.5, 2, 3 and 4: the message of the first check that fires and
\* ends the iteration with `continue`, MsgVazia when none does.  E and X are
\* codigos_entrada_set and codigos_saida_set.
\* line 239
codigos_aposentados == {11000, 11100, 11200}

\* line 252
codigos_instituto == {21000, 22000}

Validacoes(E, X) ==
    IF (14000 \in E \/ 14000 \in X) /\ 14000 \in X /\ 33000 \notin X
    THEN Msg("ERRO", "Saida no codigo 14000 sem saida correspondente na conta 33000", <<>>)
    ELSE IF (14000 \in E \/ 14000 \in X) /\ 14000 \in E /\ 33000 \notin E
    THEN Msg("ERRO", "Entrada no codigo 14000 sem entrada correspondente na conta 33000", <<>>)
    ELSE IF 14000 \in E /\ 15000 \in E
    THEN Msg("ERRO", "PENSAO e PECULIO no mesmo mes", <<>>)
    ELSE IF (32000 \in E \/ 32000 \in X) /\ (E \cup X) \cap codigos_aposentados = {}
    THEN Msg("ERRO", "Codigo 32000 lancado sem movimentacao correspondente nas contas de aposentados", <<>>)
    ELSE IF (31300 \in E \/ 31300 \in X) /\ (E \cup X) \cap codigos_instituto = {}
    THEN Msg("ERRO", "Codigo 31300 lancado sem movimentacao correspondente nas contas de instituto", <<>>)
    ELSE IF (33000 \in E \/ 33000 \in X) /\ 33000 \in E /\ 14000 \notin E
    THEN Msg("ERRO", "Entrada no codigo 33000 sem entrada correspondente na conta 14000", <<>>)
    ELSE IF (33000 \in E \/ 33000 \in X) /\ 33000 \in X /\ 14000 \notin X
    THEN Msg("ERRO", "Saida no codigo 33000 sem saida correspondente na conta 14000", <<>>)
    ELSE IF (33000 \in E \/ 33000 \in X) /\ 14000 \notin E /\ 14000 \notin X
    THEN Msg("ERRO", "Codigo 33000 lancado sem movimentacao correspondente na conta de pensao", <<>>)
    ELSE MsgVazia

\* lines 289-293
codigos_entrada_independentes(E) ==
    (E \cap CODIGOS_ENTRADA_INDEPENDENTE) \cup (E \cap {34000})

codigos_entrada_principal(E) == E \ codigos_entrada_independentes(E)

codigos_intermediarios(E, X) == X \cap codigos_entrada_principal(E)

\* lines 299-315
saidas_liquidas_brutas(E, X) == X \ codigos_entrada_principal(E)

entradas_liquidas(E, X) == codigos_entrada_principal(E) \ X

\* the noise codes subtracted whatever the number of raw net exits
saidas_liquidas_sempre_filtra(E, X) ==
    saidas_liquidas_brutas(E, X) \ CODIGOS_RUIDO_SAIDA

saidas_liquidas(E, X) ==
    IF Cardinality(saidas_liquidas_brutas(E, X)) > 1
    THEN saidas_liquidas_brutas(E, X) \ CODIGOS_RUIDO_SAIDA
    ELSE saidas_liquidas_brutas(E, X)

entradas_liquidas_filtradas(E, X) ==
    IF Cardinality(entradas_liquidas(E, X)) > 1
    THEN entradas_liquidas(E, X) \ CODIGOS_RUIDO_SAIDA
    ELSE entradas_liquidas(E, X)

\* lines 318-329: the stage tag of one row, `atual` when no branch assigns it
TipoPasso(cod, mov, E, X, atual) ==
    IF cod \in codigos_entrada_independentes(E) /\ mov = "ENTRADA" THEN "0. Independente"
    ELSE IF cod \in saidas_liquidas(E, X) /\ mov = "SAIDA" THEN "1. Inicio"
    ELSE IF cod \in entradas_liquidas(E, X) /\ mov = "ENTRADA" THEN "3. Fim"
    ELSE IF cod \in codigos_intermediarios(E, X) THEN "2. Intermediario"
    ELSE atual

ClassificarPassos(df, G, E, X) ==
    [i \in DOMAIN df |->
        IF i \in G
        THEN [df[i] EXCEPT !.TIPO_PASSO = TipoPasso(df[i].COD, df[i].MOV, E, X, @)]
        ELSE df[i]]

\* the lookup with the pair reversed
TransicaoPermitida_invertida(cod_origem, cod_destino) ==
    <<cod_destino, cod_origem>> \in regras_validas

\* line 365: (cod_origem, cod_destino) in regras_validas
TransicaoPermitida(cod_origem, cod_destino) == <<cod_origem, cod_destino>> \in regras_validas

\* line 366: the no-return override
SemRetorno(cod_origem, cod_destino) ==
    cod_origem = 21000 /\ cod_destino \in {31100, 31200, 31300, 22000}

\* lines 361-377: one net exit and one net entry
RamoTransicao(cod_origem, cod_destino, st) ==
    IF TransicaoPermitida(cod_origem, cod_destino)
    THEN IF SemRetorno(cod_origem, cod_destino)
         THEN [msg |-> Msg("ERRO", "BPD nao pode retornar para Ativo", <<>>),
               gravidade |-> "ERRO", st |-> Inc(st, "erros")]
         ELSE [msg |-> Msg("OK", "Transicao valida {origem} -> {destino}",
                           <<get_descricao(cod_origem), get_descricao(cod_destino)>>),
               gravidade |-> "OK", st |-> Inc(st, "ok")]
    ELSE [msg |-> Msg("ERRO", "Transicao NAO PERMITIDA {origem} -> {destino}",
                      <<cod_origem, cod_destino>>),
          gravidade |-> "ERRO", st |-> Inc(st, "erros")]

\* the branch counting the group in stats['info']
RamoIndependentes_info(EI, st) ==
    [msg |-> Msg("OK", "Lancamento(s) independente(s) ({codigos})", sorted(EI)),
     gravidade |-> "OK", st |-> Inc(st, "info")]

\* lines 404-407: only independent entries
RamoIndependentes(EI, st) ==
    [msg |-> Msg("OK", "Lancamento(s) independente(s) ({codigos})", sorted(EI)),
     gravidade |-> "OK", st |-> Inc(st, "ok")]

\* lines 379-401: no net exit and a net entry
RamoSoEntrada(E, X, cod_entrada, plano, st) ==
    IF 22000 \in X /\ 31300 \in X /\ cod_entrada \in {11100, 11200}
    THEN IF 32000 \in E
         THEN [msg |-> Msg("OK", "Transicao valida Autopatrocinado -> Aposentadoria com consolidadores corretos", <<>>),
               gravidade |-> "OK", st |-> Inc(st, "ok")]
         ELSE [msg |-> Msg("INFO", "Processo em andamento", <<>>),
               gravidade |-> "INFO", st |-> Inc(st, "info")]
    ELSE IF plano = 5 /\ cod_entrada \in CODIGOS_ADMISSAO
         THEN [msg |-> Msg("INFO", "Nova admissao no Plano 5", <<>>),
               gravidade |-> "INFO", st |-> Inc(st, "info")]
         ELSE [msg |-> Msg("INFO", "Processo em andamento", <<>>),
               gravidade |-> "INFO", st |-> Inc(st, "info")]

\* the exits-only branch leaving the severity of line 332 beside its message
RamoSoSaida_semGravidade(SL, X, st) ==
    LET tem_consolidador_correto ==
            \/ SL \cap {11100, 11200} # {} /\ 32000 \in X
            \/ 14000 \in SL /\ 33000 \in X
    IN  IF tem_consolidador_correto
        THEN [msg |-> Msg("OK", "Saida correta com lancamento consolidador correspondente", <<>>),
              gravidade |-> "OK", st |-> Inc(st, "ok")]
        ELSE IF 22000 \in SL
        THEN [msg |-> Msg("ERRO", "Saida de autopatrocinado (22000) sem entrada em nova situacao", <<>>),
              gravidade |-> "OK", st |-> Inc(st, "erros")]
        ELSE [msg |-> Msg("INFO", "Processo em andamento (aguardando conclusao)", <<>>),
              gravidade |-> "OK", st |-> Inc(st, "info")]

\* lines 410-433: net exits and no net entry
RamoSoSaida(SL, X, st) ==
    LET tem_consolidador_correto ==
            \/ SL \cap {11100, 11200} # {} /\ 32000 \in X
            \/ 14000 \in SL /\ 33000 \in X
    IN  IF tem_consolidador_correto
        THEN [msg |-> Msg("OK", "Saida correta com lancamento consolidador correspondente", <<>>),
              gravidade |-> "OK", st |-> Inc(st, "ok")]
        ELSE IF 22000 \in SL
        THEN [msg |-> Msg("ERRO", "Saida de autopatrocinado (22000) sem entrada em nova situacao", <<>>),
              gravidade |-> "ERRO", st |-> Inc(st, "erros")]
        ELSE [msg |-> Msg("INFO", "Processo em andamento (aguardando conclusao)", <<>>),
              gravidade |-> "INFO", st |-> Inc(st, "info")]

\* lines 331-343: msg = '', gravidade = 'OK' and the special treatment of the
\* consolidator codes, which is not part of the if/elif chain that follows
ConsolidadorCorreto(E, X, st) ==
    IF /\ Cardinality(saidas_liquidas(E, X)) = 0
       /\ Cardinality(entradas_liquidas(E, X)) = 0
       /\ E \cap {31000, 32000, 33000} # {}
    THEN [msg |-> Msg("OK", "Lancamento consolidador correto", <<>>),
          gravidade |-> "OK", st |-> Inc(st, "ok")]
    ELSE [msg |-> MsgVazia, gravidade |-> "OK", st |-> st]

\* the multiple exits reported as a process in progress
RamoMultiplasSaidas_info(SL, st) ==
    [msg |-> Msg("INFO", "Processo em andamento (aguardando conclusao)", <<>>),
     gravidade |-> "INFO", st |-> Inc(st, "info")]

\* lines 345-349: more than one net exit.  The codes are listed in ascending
\* order (the source lists them in the iteration order of the set).
RamoMultiplasSaidas(SL, st) ==
    [msg |-> Msg("ERRO", "Participante tem multiplas saidas finais no mesmo mes ({saidas})",
                 sorted(SL)),
     gravidade |-> "ERRO", st |-> Inc(st, "erros")]

\* lines 331-433: the verdict of a group that passed the validations.  `plano`
\* is group['PLANO'].iloc[0].
Terminal(E, X, plano, st) ==
    LET SL  == saidas_liquidas(E, X)
        ELF == entradas_liquidas_filtradas(E, X)
        EI  == codigos_entrada_independentes(E)
        r0  == ConsolidadorCorreto(E, X, st)
    IN  IF Cardinality(SL) > 1
        THEN RamoMultiplasSaidas(SL, r0.st)
        ELSE IF Cardinality(ELF) > 1
        THEN IF SL = {31200} /\ ELF = {21000, 31300}
             THEN [msg |-> Msg("OK", "Transicao aceita 31200 -> (21000 + 31300)", <<>>),
                   gravidade |-> "OK", st |-> Inc(r0.st, "ok")]
             ELSE [msg |-> Msg("ERRO", "Multiplas entradas finais", <<>>),
                   gravidade |-> "ERRO", st |-> Inc(r0.st, "erros")]
        ELSE IF Cardinality(SL) = 1 /\ Cardinality(ELF) = 1
        THEN RamoTransicao(CHOOSE c \in SL : TRUE, CHOOSE c \in ELF : TRUE, r0.st)
        ELSE IF Cardinality(SL) = 0 /\ Cardinality(ELF) > 0
        THEN RamoSoEntrada(E, X, CHOOSE c \in ELF : TRUE, plano, r0.st)
        ELSE IF Cardinality(SL) = 0 /\ Cardinality(ELF) = 0 /\ Cardinality(EI) > 0
        THEN RamoIndependentes(EI, r0.st)
        ELSE IF Cardinality(SL) > 0 /\ Cardinality(ELF) = 0
        THEN RamoSoSaida(SL, X, r0.st)
        ELSE r0

\* lines 187-437: one iteration of `for nome_participante, group in grouped`
\* on the frame df and the counters st, for the group of rows G
CorpoGrupo(df, st, G) ==
    LET v1  == Validacao1(df, st, G)
        E   == codigos_entrada_set(df, G)
        X   == codigos_saida_set(df, G)
        val == Validacoes(E, X)
        primeiro == CHOOSE i \in G : \A j \in G : i <= j
        t   == Terminal(E, X, df[primeiro].PLANO, v1.st)
        passos == ClassificarPassos(v1.df, G, E, X)
    IN  IF val # MsgVazia
        THEN [df |-> Marcar(v1.df, G, val, "ERRO"), st |-> Inc(v1.st, "erros")]
        ELSE [df |-> IF t.msg # MsgVazia THEN Marcar(passos, G, t.msg, t.gravidade) ELSE passos,
              st |-> t.st]

(***************************************************************************)
(* calcular_stats_participantes                                            *)
(***************************************************************************)
StatsZero == [total |-> 0, erros |-> 0, info |-> 0, ok |-> 0]

\* the reduction testing INFO before ERRO
pior_gravidade_info_primeiro(vals) ==
    IF "INFO" \in vals THEN "INFO"
    ELSE IF "ERRO" \in vals THEN "ERRO"
    ELSE "OK"

\* lines 446-452
pior_gravidade(vals) ==
    IF "ERRO" \in vals THEN "ERRO"
    ELSE IF "INFO" \in vals THEN "INFO"
    ELSE "OK"

calcular_stats_participantes(df) ==
    IF df = <<>> THEN StatsZero
    ELSE LET nomes == {df[i].NOME : i \in DOMAIN df}
             por_participante ==
                 [n \in nomes |-> pior_gravidade({df[i].GRAVIDADE : i \in Grupo(df, n)})]
             counts(g) == Cardinality({n \in nomes : por_participante[n] = g})
         IN [total |-> Cardinality(nomes), erros |-> counts("ERRO"),
             info |-> counts("INFO"), ok |-> counts("OK")]

(***************************************************************************)
(* The inputs: the frame df_mov and the list of months of the period       *)
(***************************************************************************)
Nomes == {1, 2}

Planos == {1, 5}

Meses == {202401, 202402}

Linha(nome, plano, mes, cod, mov) ==
    [NOME |-> nome, PLANO |-> plano, ANO_MES |-> mes, COD |-> cod, MOV |-> mov]

\* every code an input row may carry: the catalog and 11000, the code the
\* constants name that the catalog does not hold
CodigosDeEntrada == sorted(Catalogo \cup {11000})

\* the strictly increasing sequences of length k over 1..n
Crescentes(n, k) == {f \in [1..k -> 1..n] : \A i \in 1..(k - 1) : f[i] < f[i + 1]}

\* one participant, one plan, one month: at most MaxCods rows with pairwise
\* different (code, direction), over every code; the exits come first
ParCodMov(k) ==
    LET n == Len(CodigosDeEntrada)
    IN IF k <= n THEN Linha(1, 1, 202401, CodigosDeEntrada[k], "SAIDA")
       ELSE Linha(1, 1, 202401, CodigosDeEntrada[k - n], "ENTRADA")

EntradaUmGrupo(df, l) ==
    /\ \E k \in 0..MaxCods :
          \E f \in Crescentes(2 * Len(CodigosDeEntrada), k) :
              df = [i \in 1..k |-> ParCodMov(f[i])]
    /\ l = <<202401>>

\* one participant, one month, two plans: at most MaxRecs rows in any order,
\* repetitions included, over the active codes and an independent code
LinhasPlanos ==
    {Linha(1, p, 202401, c, m) :
        p \in Planos, c \in {31100, 31200, 13000}, m \in {"ENTRADA", "SAIDA"}}

EntradaPlanos(df, l) ==
    /\ \E k \in 0..MaxRecs : df \in [1..k -> LinhasPlanos]
    /\ l = <<202401>>

\* two participants, two months: at most MaxRecs pairwise different entry
\* rows, ordered by participant and month, over codes that alone give INFO, OK
\* and ERRO, with every list of months
ListasDeMeses ==
    {<<>>, <<202401>>, <<202402>>, <<202401, 202402>>, <<202402, 202401>>,
     <<202401, 202401>>}

LinhaPeriodo(k) ==
    Linha(IF k <= 6 THEN 1 ELSE 2, 1,
          IF (k - 1) % 6 < 3 THEN 202401 ELSE 202402,
          <<31100, 13000, 14000>>[((k - 1) % 3) + 1], "ENTRADA")

EntradaPeriodo(df, l) ==
    /\ \E k \in 0..MaxRecs :
          \E f \in Crescentes(12, k) : df = [i \in 1..k |-> LinhaPeriodo(f[i])]
    /\ l \in ListasDeMeses

(***************************************************************************)
(* The state: a call analisar_movimentacoes_periodo(df_mov, ..., meses)    *)
(***************************************************************************)
VARIABLES
    df_mov,         \* the argument df_mov
    meses,          \* the argument meses
    pc,             \* "periodo": at `for mes in meses`; "grupos": in the loop of
                    \* analisar_movimentacoes_mes; "retorno": it has returned;
                    \* "fim": the period has returned; "excecao": an exception left it
    i_mes,          \* the position in meses of the month of the current iteration
    df_mes,         \* df_mes of analisar_movimentacoes_mes
    stats,          \* stats of analisar_movimentacoes_mes
    fila,           \* the keys of the groups still to iterate, in groupby's order
    retorno,        \* what analisar_movimentacoes_mes returned: "tupla" for
                    \* (df_mes, stats), "df" for the bare df_mes, "" before
    dfs,            \* the list dfs of analisar_movimentacoes_periodo
    df_res,         \* the frame the period returns
    stats_periodo,  \* the stats the period returns
    stats_mes,      \* _stats_mes of analisar_movimentacoes_periodo (line 469)
    pc_carga,       \* the position in the upload branch of main: "ocioso" when
                    \* no file is being loaded, then "conversoes", "dropna",
                    \* "duplicatas", "identificador", "carregado"
    df_bruto,       \* the frame read from the uploaded file
    df_para_analise,\* df_para_analise of main
    df_dados,       \* st.session_state['df_dados']
    arquivo,        \* uploaded_file is not None, in the upload mode
    visao_stats,    \* the radio of the statistics tab
    ano_sel,        \* the select box "Ano:"
    mes_sel,        \* the select box "Mes:"
    pdf_bytes,      \* st.session_state['pdf_bytes']: the view its bytes were
                    \* generated from, or PdfNenhum when the key is absent
    download,       \* the download button of the last run of the script
    mes_analisado   \* st.session_state['mes_analisado'], 0 when the key is absent

varsCarga == <<pc_carga, df_bruto, df_para_analise, df_dados>>

varsTela == <<arquivo, visao_stats, ano_sel, mes_sel, pdf_bytes, download, mes_analisado>>

vars == <<df_mov, meses, pc, i_mes, df_mes, stats, fila, retorno, dfs, df_res, stats_periodo,
          stats_mes, pc_carga, df_bruto, df_para_analise, df_dados,
          arquivo, visao_stats, ano_sel, mes_sel, pdf_bytes, download, mes_analisado>>

\* ano_sel == "Todos"
Todos == 0

\* no bytes stored, and no button rendered
PdfNenhum == [visao |-> "", ano |-> Todos, mes_alvo |-> 0]

SemDownload == [oferecido |-> FALSE, file_name |-> [tipo |-> "", v |-> 0], data |-> PdfNenhum]

\* the statistics tab before any interaction: no file, no bytes, the first
\* option of the radio
TelaInicial ==
    /\ arquivo = FALSE
    /\ visao_stats = "Estatistica Geral/Anual"
    /\ ano_sel = 2025
    /\ mes_sel = 2
    /\ pdf_bytes = PdfNenhum
    /\ download = SemDownload
    /\ mes_analisado = 0

Init ==
    /\ \/ EntradaUmGrupo(df_mov, meses)
       \/ EntradaPlanos(df_mov, meses)
       \/ EntradaPeriodo(df_mov, meses)
    /\ pc = "periodo"
    /\ i_mes = 1
    /\ df_mes = <<>>
    /\ stats = StatsZero
    /\ fila = <<>>
    /\ retorno = ""
    /\ dfs = <<>>
    /\ df_res = <<>>
    /\ stats_periodo = StatsZero
    /\ stats_mes = StatsZero
    /\ pc_carga = "ocioso"
    /\ df_bruto = <<>>
    /\ df_para_analise = <<>>
    /\ df_dados = <<>>
    /\ TelaInicial

\* the frame without the filter on the month
FiltrarMes_semFiltro(df, mes) ==
    [k \in DOMAIN df |->
          [IDX |-> k, NOME |-> df[k].NOME, PLANO |-> df[k].PLANO,
           ANO_MES |-> df[k].ANO_MES, COD |-> df[k].COD, MOV |-> df[k].MOV,
           ANALISE |-> MsgOK, GRAVIDADE |-> "OK", TIPO_PASSO |-> "Indefinido"]]

\* df_mov[df_mov['ANO MES'] == mes_analise].copy(), with the four new columns
FiltrarMes(df, mes) ==
    LET idx == sorted({i \in DOMAIN df : df[i].ANO_MES = mes})
    IN [k \in DOMAIN idx |->
          [IDX |-> idx[k], NOME |-> df[idx[k]].NOME, PLANO |-> df[idx[k]].PLANO,
           ANO_MES |-> df[idx[k]].ANO_MES, COD |-> df[idx[k]].COD, MOV |-> df[idx[k]].MOV,
           ANALISE |-> MsgOK, GRAVIDADE |-> "OK", TIPO_PASSO |-> "Indefinido"]]

\* stats that carry over what an earlier call counted
stats_iniciais_acumuladas(n) ==
    [total |-> stats.total + n, erros |-> stats.erros, info |-> stats.info, ok |-> stats.ok]

\* line 185: the stats of a call start from the number of groups
stats_iniciais(n) == [total |-> n, erros |-> 0, info |-> 0, ok |-> 0]

\* lines 469 and 170-185: the period calls analisar_movimentacoes_mes for the
\* next month, which filters the rows and either returns the empty frame
\* alone or prepares the loop over the groups
ChamarMes ==
    /\ pc = "periodo"
    /\ i_mes <= Len(meses)
    /\ LET filtrado == FiltrarMes(df_mov, meses[i_mes])
       IN /\ df_mes' = filtrado
          /\ IF filtrado = <<>>
             THEN /\ pc' = "retorno"
                  /\ retorno' = "df"
                  /\ UNCHANGED <<stats, fila>>
             ELSE /\ pc' = "grupos"
                  /\ retorno' = ""
                  /\ fila' = sorted({filtrado[i].NOME : i \in DOMAIN filtrado})
                  /\ stats' = stats_iniciais(Len(fila'))
    /\ UNCHANGED <<df_mov, meses, i_mes, dfs, df_res, stats_periodo, stats_mes>>
    /\ UNCHANGED varsCarga
    /\ UNCHANGED varsTela

\* lines 187-437: one iteration of the loop over the groups
ProcessarGrupo ==
    /\ pc = "grupos"
    /\ fila # <<>>
    /\ LET r == CorpoGrupo(df_mes, stats, Grupo(df_mes, Head(fila)))
       IN /\ df_mes' = r.df
          /\ stats' = r.st
    /\ fila' = Tail(fila)
    /\ UNCHANGED <<df_mov, meses, pc, i_mes, retorno, dfs, df_res, stats_periodo, stats_mes>>
    /\ UNCHANGED varsCarga
    /\ UNCHANGED varsTela

\* line 439: return df_mes, stats
RetornarMes ==
    /\ pc = "grupos"
    /\ fila = <<>>
    /\ pc' = "retorno"
    /\ retorno' = "tupla"
    /\ UNCHANGED <<df_mov, meses, i_mes, df_mes, stats, fila, dfs, df_res, stats_periodo, stats_mes>>
    /\ UNCHANGED varsCarga
    /\ UNCHANGED varsTela

\* lines 469-477: `df_mes, _stats_mes = ...` and the append.  Unpacking the
\* bare frame iterates its column labels and raises (ValueError unless the
\* frame has exactly two columns, and then df_mes is a label and `.empty`
\* raises AttributeError).
DesempacotarMes ==
    /\ pc = "retorno"
    /\ IF retorno = "df"
       THEN /\ pc' = "excecao"
            /\ UNCHANGED <<i_mes, dfs, stats_mes>>
       ELSE /\ pc' = "periodo"
            /\ i_mes' = i_mes + 1
            /\ stats_mes' = stats
            /\ dfs' = IF df_mes # <<>> THEN Append(dfs, df_mes) ELSE dfs
    /\ UNCHANGED <<df_mov, meses, df_mes, stats, fila, retorno, df_res, stats_periodo>>
    /\ UNCHANGED varsCarga
    /\ UNCHANGED varsTela

\* pd.concat(dfs, ignore_index=True)
RECURSIVE concat(_)
concat(l) == IF l = <<>> THEN <<>> ELSE Head(l) \o concat(Tail(l))

\* lines 479-484: the end of the period
ConcluirPeriodo ==
    /\ pc = "periodo"
    /\ i_mes > Len(meses)
    /\ pc' = "fim"
    /\ IF dfs = <<>>
       THEN /\ df_res' = <<>>
            /\ stats_periodo' = StatsZero
       ELSE /\ df_res' = concat(dfs)
            /\ stats_periodo' = calcular_stats_participantes(concat(dfs))
    /\ UNCHANGED <<df_mov, meses, i_mes, df_mes, stats, fila, retorno, dfs, stats_mes>>
    /\ UNCHANGED varsCarga
    /\ UNCHANGED varsTela

Next ==
    \/ ChamarMes
    \/ ProcessarGrupo
    \/ RetornarMes
    \/ DesempacotarMes
    \/ ConcluirPeriodo

Spec == Init /\ [][Next]_vars

(***************************************************************************)
(* The upload branch of main (lines 1278-1342): the normalisation of the   *)
(* uploaded frame.  A name is a sequence of characters; the missing value  *)
(* of pandas is NaN.                                                       *)
(***************************************************************************)
NaN == <<"NaN">>

Letras == {"a", "n", "A", "N"}

upper(c) == IF c = "a" THEN "A" ELSE IF c = "n" THEN "N" ELSE c

lower(c) == IF c = "A" THEN "a" ELSE IF c = "N" THEN "n" ELSE c

\* str.strip(): leading and trailing blanks removed
RECURSIVE strip(_)
strip(s) ==
    IF s = <<>> THEN s
    ELSE IF Head(s) = " " THEN strip(Tail(s))
    ELSE IF s[Len(s)] = " " THEN strip(SubSeq(s, 1, Len(s) - 1))
    ELSE s

\* str.title(): a letter that follows a letter is lowered, any other letter
\* is raised
title(s) ==
    [k \in DOMAIN s |->
        IF k > 1 /\ s[k - 1] \in Letras THEN lower(s[k]) ELSE upper(s[k])]

NomeNaoInformado == <<"N", "o", "m", "e", " ", "n", "a", "o", " ", "i", "n", "f", "o", "r", "m", "a", "d", "o">>

formatar_nome_participante(nome) ==
    IF nome = NaN THEN NomeNaoInformado ELSE title(strip(nome))

\* pd.to_numeric(..., errors='coerce') of a cell: the number of a numeric
\* cell, NaN for any other text
to_numeric(cel) == IF cel.numerico THEN cel ELSE [numerico |-> FALSE, v |-> 0, nan |-> TRUE]

Numero(v) == [numerico |-> TRUE, v |-> v, nan |-> FALSE]

Texto == [numerico |-> FALSE, v |-> 0, nan |-> FALSE]

\* the uploaded files: at most MaxRecs rows of one organisation, whose names
\* are two spellings that format to the same name or a missing name, whose code is a number or a text, over two months
NomesBrutos ==
    {<<"a", "n", "a">>, <<" ", "A", "N", "A">>, NaN}

LinhasBrutas ==
    [CODIGO_ORG : {1}, NOME : NomesBrutos, COD : {Numero(31100), Texto},
     ANO_MES : {Numero(202401), Numero(202402)}, MOV : {"ENTRADA", "SAIDA"}]

InitCarga ==
    /\ \E k \in 1..MaxRecs : df_bruto \in [1..k -> LinhasBrutas]
    /\ pc_carga = "conversoes"
    /\ df_para_analise = <<>>
    /\ df_dados = <<>>
    /\ df_mov = <<>>
    /\ meses = <<>>
    /\ pc = "ocioso"
    /\ i_mes = 1
    /\ df_mes = <<>>
    /\ stats = StatsZero
    /\ fila = <<>>
    /\ retorno = ""
    /\ dfs = <<>>
    /\ df_res = <<>>
    /\ stats_periodo = StatsZero
    /\ stats_mes = StatsZero
    /\ TelaInicial

varsMotor == <<df_mov, meses, pc, i_mes, df_mes, stats, fila, retorno, dfs, df_res,
               stats_periodo, stats_mes>>

\* lines 1300-1306: the copy, with its row labels, and the two to_numeric
Converter ==
    /\ pc_carga = "conversoes"
    /\ df_para_analise' =
          [k \in DOMAIN df_bruto |->
              [LINHA |-> k, CODIGO_ORG |-> df_bruto[k].CODIGO_ORG, NOME |-> df_bruto[k].NOME,
               COD |-> to_numeric(df_bruto[k].COD), ANO_MES |-> to_numeric(df_bruto[k].ANO_MES),
               MOV |-> df_bruto[k].MOV]]
    /\ pc_carga' = "dropna"
    /\ UNCHANGED <<df_bruto, df_dados>>
    /\ UNCHANGED varsMotor
    /\ UNCHANGED varsTela

\* the rows of a frame at the positions of idx, in that order
Selecionar(df, idx) == [k \in DOMAIN idx |-> df[idx[k]]]

\* lines 1309-1316: dropna on the four columns, then astype(int)
RemoverNAs ==
    /\ pc_carga = "dropna"
    /\ LET ficam == sorted({k \in DOMAIN df_para_analise :
                              /\ ~df_para_analise[k].COD.nan
                              /\ ~df_para_analise[k].ANO_MES.nan
                              /\ df_para_analise[k].NOME # NaN})
           sel == Selecionar(df_para_analise, ficam)
       IN df_para_analise' =
             [k \in DOMAIN sel |->
                 [sel[k] EXCEPT !.COD = sel[k].COD.v, !.ANO_MES = sel[k].ANO_MES.v]]
    /\ pc_carga' = "duplicatas"
    /\ UNCHANGED <<df_bruto, df_dados>>
    /\ UNCHANGED varsMotor
    /\ UNCHANGED varsTela

\* sort_values('ANO MES'): quicksort, which does not fix the order of the
\* rows of one month
Ordenacoes(df) ==
    {p \in [DOMAIN df -> DOMAIN df] :
        /\ \A i, j \in DOMAIN df : i # j => p[i] # p[j]
        /\ \A i, j \in DOMAIN df : i < j => df[p[i]].ANO_MES <= df[p[j]].ANO_MES}

\* the subset of line 1324
ChaveDuplicata(r) == <<r.CODIGO_ORG, r.NOME, r.COD, r.MOV>>

\* drop_duplicates(subset=..., keep='first')
drop_duplicates(df) ==
    Selecionar(df, sorted({k \in DOMAIN df :
                              \A j \in 1..(k - 1) : ChaveDuplicata(df[j]) # ChaveDuplicata(df[k])}))

\* lines 1323-1327
RemoverDuplicatas ==
    /\ pc_carga = "duplicatas"
    /\ \E p \in Ordenacoes(df_para_analise) :
          df_para_analise' = drop_duplicates(Selecionar(df_para_analise, p))
    /\ pc_carga' = "identificador"
    /\ UNCHANGED <<df_bruto, df_dados>>
    /\ UNCHANGED varsMotor
    /\ UNCHANGED varsTela

\* lines 1330-1339: the column 'CODIGO ORGANIZACAO NOME' and the session state
CriarIdentificador ==
    /\ pc_carga = "identificador"
    /\ df_dados' =
          [k \in DOMAIN df_para_analise |->
              [LINHA |-> df_para_analise[k].LINHA,
               CODIGO_ORG |-> df_para_analise[k].CODIGO_ORG,
               NOME |-> df_para_analise[k].NOME,
               COD |-> df_para_analise[k].COD,
               ANO_MES |-> df_para_analise[k].ANO_MES,
               MOV |-> df_para_analise[k].MOV,
               CODIGO_ORGANIZACAO_NOME |->
                   <<df_para_analise[k].CODIGO_ORG,
                     formatar_nome_participante(df_para_analise[k].NOME)>>]]
    /\ pc_carga' = "carregado"
    /\ UNCHANGED <<df_bruto, df_para_analise>>
    /\ UNCHANGED varsMotor
    /\ UNCHANGED varsTela

NextCarga ==
    \/ Converter
    \/ RemoverNAs
    \/ RemoverDuplicatas
    \/ CriarIdentificador

SpecCarga == InitCarga /\ [][NextCarga]_vars

(***************************************************************************)
(* The statistics tab of main (lines 1497-2086) across the runs of the     *)
(* script.  Every interaction of the user runs the whole script again: the *)
(* upload branch while a file is in the uploader, then the tab with the    *)
(* values of its widgets.  The bytes of a PDF are identified with the view *)
(* they were generated from.                                               *)
(***************************************************************************)
\* the frame an uploaded file leaves in the session, of four months
DadosTela ==
    [k \in 1..4 |->
        [LINHA |-> k, CODIGO_ORG |-> 1, NOME |-> <<"a", "n", "a">>, COD |-> 31100,
         ANO_MES |-> <<202401, 202402, 202501, 202502>>[k], MOV |-> "ENTRADA",
         CODIGO_ORGANIZACAO_NOME |-> <<1, <<"A", "n", "a">>>>]]

Visoes == {"Estatistica Geral/Anual", "Estatistica Mensal"}

\* lines 1502-1503
meses_disponiveis_stats(df) == sorted({df[k].ANO_MES : k \in DOMAIN df})

anos_disponiveis(df) == {Todos} \cup {df[k].ANO_MES \div 100 : k \in DOMAIN df}

\* lines 1516-1521
meses_do_ano(df, ano) ==
    LET doAno == IF ano = Todos
                 THEN {df[k].ANO_MES % 100 : k \in DOMAIN df}
                 ELSE {df[k].ANO_MES % 100 : k \in {j \in DOMAIN df : df[j].ANO_MES \div 100 = ano}}
    IN IF doAno = {} THEN {1} ELSE doAno

\* lines 1523-1526
mes_alvo(df, ano, mes) ==
    IF ano = Todos
    THEN meses_disponiveis_stats(df)[Len(meses_disponiveis_stats(df))]
    ELSE ano * 100 + mes

\* lines 2046-2071: what the generated report shows, the month of the
\* monthly view or the year of the general view
gerar_pdf_relatorio_visual(df, visao, ano, mes) ==
    IF visao = "Estatistica Mensal"
    THEN [visao |-> visao, ano |-> Todos, mes_alvo |-> mes_alvo(df, ano, mes)]
    ELSE [visao |-> visao, ano |-> ano, mes_alvo |-> 0]

\* lines 2078-2079: sufixo, which decides nome_pdf
sufixo(df, visao, ano, mes) ==
    IF visao = "Estatistica Mensal" THEN [tipo |-> "mes", v |-> mes_alvo(df, ano, mes)]
    ELSE IF ano # Todos THEN [tipo |-> "ano", v |-> ano]
    ELSE [tipo |-> "geral", v |-> 0]

\* one run of the script with the file state arq and the widget values
\* visao, ano, mes; clicou: the button "Gerar PDF" was pressed; falhou: the
\* generation raised (lines 2072-2073)
Executar(arq, visao, ano, mes, clicou, falhou) ==
    LET dados == IF arq THEN DadosTela ELSE df_dados
        pdf1  == IF arq THEN PdfNenhum ELSE pdf_bytes
        pdf2  == IF dados # <<>> /\ clicou /\ ~falhou
                 THEN gerar_pdf_relatorio_visual(dados, visao, ano, mes)
                 ELSE pdf1
    IN  /\ arquivo' = arq
        /\ visao_stats' = visao
        /\ ano_sel' = ano
        /\ mes_sel' = mes
        /\ df_dados' = dados
        /\ pdf_bytes' = pdf2
        /\ download' = IF dados # <<>> /\ pdf2 # PdfNenhum
                       THEN [oferecido |-> TRUE, file_name |-> sufixo(dados, visao, ano, mes),
                             data |-> pdf2]
                       ELSE SemDownload
        /\ UNCHANGED <<pc_carga, df_bruto, df_para_analise>>
        /\ UNCHANGED varsMotor

InitTela ==
    /\ TelaInicial
    /\ pc_carga = "ocioso"
    /\ df_bruto = <<>>
    /\ df_para_analise = <<>>
    /\ df_dados = <<>>
    /\ df_mov = <<>>
    /\ meses = <<>>
    /\ pc = "ocioso"
    /\ i_mes = 1
    /\ df_mes = <<>>
    /\ stats = StatsZero
    /\ fila = <<>>
    /\ retorno = ""
    /\ dfs = <<>>
    /\ df_res = <<>>
    /\ stats_periodo = StatsZero
    /\ stats_mes = StatsZero

\* a file is put in the uploader: lines 1278-1342 run in this and in every
\* later run
CarregarArquivo ==
    /\ ~arquivo
    /\ UNCHANGED mes_analisado
    /\ Executar(TRUE, visao_stats, ano_sel, mes_sel, FALSE, FALSE)

\* the file is taken out of the uploader, or the mode is changed
RemoverArquivo ==
    /\ arquivo
    /\ UNCHANGED mes_analisado
    /\ Executar(FALSE, visao_stats, ano_sel, mes_sel, FALSE, FALSE)

\* lines 1413-1430: the button "Executar Analise", which is rendered while
\* df_para_analise holds the file
ExecutarAnalise ==
    /\ arquivo
    /\ \E mes_selecionado \in Range(meses_disponiveis_stats(DadosTela)) :
          mes_analisado' = mes_selecionado
    /\ Executar(TRUE, visao_stats, ano_sel, mes_sel, FALSE, FALSE)

\* lines 1507-1511
MudarVisao ==
    /\ df_dados # <<>>
    /\ UNCHANGED mes_analisado
    /\ \E v \in Visoes \ {visao_stats} :
          Executar(arquivo, v, ano_sel, mes_sel, FALSE, FALSE)

\* line 1515; the select box of the month keeps its value while its options
\* are the same and otherwise starts at its last option (line 1522)
MudarAno ==
    /\ df_dados # <<>>
    /\ UNCHANGED mes_analisado
    /\ \E a \in anos_disponiveis(df_dados) \ {ano_sel} :
          LET opcoes == sorted(meses_do_ano(df_dados, a))
          IN Executar(arquivo, visao_stats, a,
                      IF meses_do_ano(df_dados, a) = meses_do_ano(df_dados, ano_sel)
                      THEN mes_sel ELSE opcoes[Len(opcoes)],
                      FALSE, FALSE)

\* line 1522
MudarMes ==
    /\ df_dados # <<>>
    /\ UNCHANGED mes_analisado
    /\ \E m \in meses_do_ano(df_dados, ano_sel) \ {mes_sel} :
          Executar(arquivo, visao_stats, ano_sel, m, FALSE, FALSE)

\* lines 2036-2073
ClicarGerarPDF ==
    /\ df_dados # <<>>
    /\ UNCHANGED mes_analisado
    /\ \E falhou \in BOOLEAN :
          Executar(arquivo, visao_stats, ano_sel, mes_sel, TRUE, falhou)

NextTela ==
    \/ CarregarArquivo
    \/ RemoverArquivo
    \/ ExecutarAnalise
    \/ MudarVisao
    \/ MudarAno
    \/ MudarMes
    \/ ClicarGerarPDF

SpecTela == InitTela /\ [][NextTela]_vars

(***************************************************************************)
(* Properties                                                              *)
(***************************************************************************)
\* analisar_movimentacoes_mes has returned (df_mes, stats)
MesRetornou == pc = "retorno" /\ retorno = "tupla"

NomesDoMes == {df_mes[i].NOME : i \in DOMAIN df_mes}

EntradasDe(n) == codigos_entrada_set(df_mes, Grupo(df_mes, n))

SaidasDe(n) == codigos_saida_set(df_mes, Grupo(df_mes, n))

\* every row of the group of n carries the severity g
GrupoTemGravidade(n, g) == \A i \in Grupo(df_mes, n) : df_mes[i].GRAVIDADE = g

\* every row of the group of n carries the message m
GrupoTemAnalise(n, m) == \A i \in Grupo(df_mes, n) : df_mes[i].ANALISE = m

\* C1: after a month has been processed, all rows of one participant carry
\* the same GRAVIDADE and the same ANALISE.
C1_GrupoUniforme ==
    MesRetornou =>
        \A i, j \in DOMAIN df_mes :
            df_mes[i].NOME = df_mes[j].NOME =>
                /\ df_mes[i].GRAVIDADE = df_mes[j].GRAVIDADE
                /\ df_mes[i].ANALISE = df_mes[j].ANALISE

\* C2: a group whose net exits are exactly {origin} and whose net entries are
\* exactly {destination}, with (origin, destination) not in regras_validas,
\* ends with GRAVIDADE = ERRO on all its rows.
C2_ParForaDasRegrasErro ==
    MesRetornou =>
        \A n \in NomesDoMes :
            \A o \in saidas_liquidas(EntradasDe(n), SaidasDe(n)) :
                \A d \in entradas_liquidas(EntradasDe(n), SaidasDe(n)) :
                    ( /\ saidas_liquidas(EntradasDe(n), SaidasDe(n)) = {o}
                      /\ entradas_liquidas(EntradasDe(n), SaidasDe(n)) = {d}
                      /\ <<o, d>> \notin regras_validas )
                    => GrupoTemGravidade(n, "ERRO")

\* a group that holds an independent entry besides the forbidden pair, which
\* reached the lookup of the pair and was refused by it
C2_Witness ==
    /\ MesRetornou
    /\ \E n \in NomesDoMes :
          /\ saidas_liquidas(EntradasDe(n), SaidasDe(n)) = {11100}
          /\ entradas_liquidas(EntradasDe(n), SaidasDe(n)) = {31100}
          /\ codigos_entrada_independentes(EntradasDe(n)) # {}
          /\ GrupoTemAnalise(n, Msg("ERRO", "Transicao NAO PERMITIDA {origem} -> {destino}",
                                    <<11100, 31100>>))

\* C3: for (origin, destination) in regras_validas with origin other than
\* 21000, the group of one SAIDA of origin and one ENTRADA of destination
\* in the same plan is classified OK.
C3_ParDasRegrasOK ==
    MesRetornou =>
        \A o, d \in Range(CodigosDeEntrada) :
            ( /\ <<o, d>> \in regras_validas
              /\ o # 21000
              /\ Len(df_mes) = 2
              /\ df_mes[1].MOV = "SAIDA" /\ df_mes[1].COD = o
              /\ df_mes[2].MOV = "ENTRADA" /\ df_mes[2].COD = d
              /\ df_mes[1].NOME = df_mes[2].NOME
              /\ df_mes[1].PLANO = df_mes[2].PLANO )
            => GrupoTemGravidade(df_mes[1].NOME, "OK")

\* C4: the group of one SAIDA of 21000 and one ENTRADA of an active code is
\* classified ERRO with the message "BPD nao pode retornar para Ativo".
C4_SemRetornoParaAtivo ==
    MesRetornou =>
        \A n \in NomesDoMes :
            ( /\ Cardinality(Grupo(df_mes, n)) = 2
              /\ SaidasDe(n) = {21000}
              /\ \E d \in CODIGOS_ATIVOS : EntradasDe(n) = {d} )
            => /\ GrupoTemGravidade(n, "ERRO")
               /\ GrupoTemAnalise(n, Msg("ERRO", "BPD nao pode retornar para Ativo", <<>>))

\* C5: a group with ENTRADA codes exactly {14000, 15000} and no SAIDA is
\* classified ERRO with the message "PENSAO e PECULIO no mesmo mes".
C5_PensaoPeculio ==
    MesRetornou =>
        \A n \in NomesDoMes :
            (EntradasDe(n) = {14000, 15000} /\ SaidasDe(n) = {})
            => /\ GrupoTemGravidade(n, "ERRO")
               /\ GrupoTemAnalise(n, Msg("ERRO", "PENSAO e PECULIO no mesmo mes", <<>>))

\* C6: a group with SAIDA codes {31100, 11100, 22000} and no ENTRADA is not
\* classified as the multiple-final-exits error.
C6_RuidoDeixaUmaSaida ==
    MesRetornou =>
        \A n \in NomesDoMes :
            (SaidasDe(n) = {31100, 11100, 22000} /\ EntradasDe(n) = {})
            => \A i \in Grupo(df_mes, n) :
                   df_mes[i].ANALISE.texto #
                       "Participante tem multiplas saidas finais no mesmo mes ({saidas})"

\* the condition of C7 on the group of n: no SAIDA, every ENTRADA code independent
SoIndependentes(n) ==
    /\ SaidasDe(n) = {}
    /\ EntradasDe(n) \subseteq {13000, 24100, 24200}

\* C7: the iteration of a group with no SAIDA whose ENTRADA codes are all
\* independent codes marks every row of the group OK with the message of the
\* independent entries, the codes in ascending order, and adds one to
\* stats['ok'] and nothing to the other counters.
C7_SoIndependentesOK ==
    [][ (pc = "grupos" /\ fila # <<>> /\ SoIndependentes(Head(fila)))
        => /\ stats' = [stats EXCEPT !.ok = @ + 1]
           /\ \A i \in Grupo(df_mes, Head(fila)) :
                 /\ df_mes'[i].GRAVIDADE = "OK"
                 /\ df_mes'[i].ANALISE =
                        Msg("OK", "Lancamento(s) independente(s) ({codigos})",
                            sorted(EntradasDe(Head(fila)))) ]_vars

\* a month has returned with a group of three independent entries marked OK
C7_Witness ==
    /\ MesRetornou
    /\ \E n \in NomesDoMes :
          /\ SoIndependentes(n)
          /\ EntradasDe(n) = {13000, 24100, 24200}
          /\ GrupoTemAnalise(n, Msg("OK", "Lancamento(s) independente(s) ({codigos})",
                                    <<13000, 24100, 24200>>))
          /\ stats.ok = 1

\* C8: the stats returned for a month satisfy ok + info + erros = total.
C8_StatsSomamTotal ==
    MesRetornou => stats.ok + stats.info + stats.erros = stats.total

\* the severities of the rows of participant n in the frame of the period
GravidadesDe(n) == {df_res[i].GRAVIDADE : i \in Grupo(df_res, n)}

NomesDoPeriodo == {df_res[i].NOME : i \in DOMAIN df_res}

\* C9: the stats of a period count each participant once, with the worst
\* GRAVIDADE over all of their rows of all the months of the period, and
\* erros + info + ok = total = the number of distinct participants.
C9_PiorGravidadePorParticipante ==
    (pc = "fim" /\ dfs # <<>>) =>
        /\ {<<df_res[i].ANO_MES, df_res[i].IDX>> : i \in DOMAIN df_res}
             = {<<df_mov[i].ANO_MES, i>> : i \in {j \in DOMAIN df_mov : df_mov[j].ANO_MES \in Range(meses)}}
        /\ stats_periodo.erros = Cardinality({n \in NomesDoPeriodo : "ERRO" \in GravidadesDe(n)})
        /\ stats_periodo.info = Cardinality({n \in NomesDoPeriodo :
                                     "ERRO" \notin GravidadesDe(n) /\ "INFO" \in GravidadesDe(n)})
        /\ stats_periodo.ok = Cardinality({n \in NomesDoPeriodo : GravidadesDe(n) = {"OK"}})
        /\ stats_periodo.total = Cardinality(NomesDoPeriodo)
        /\ stats_periodo.erros + stats_periodo.info + stats_periodo.ok = stats_periodo.total

\* a period of two months ended with a participant that is ERRO in one month
\* and INFO in the other, counted as ERRO, and another participant counted OK
C9_Witness ==
    /\ pc = "fim"
    /\ Len(meses) = 2
    /\ \E i, j \in DOMAIN df_res :
          /\ df_res[i].NOME = df_res[j].NOME
          /\ df_res[i].ANO_MES # df_res[j].ANO_MES
          /\ df_res[i].GRAVIDADE = "ERRO"
          /\ df_res[j].GRAVIDADE = "INFO"
    /\ stats_periodo = [total |-> 2, erros |-> 1, info |-> 0, ok |-> 1]

\* C10: analisar_movimentacoes_periodo raises no exception, whatever the list
\* of months, a month without rows included.
C10_PeriodoNaoLanca == pc # "excecao"

\* C11: what analisar_movimentacoes_mes returns for month m is exactly the rows
\* of df_mov whose ANO MES is m, in their order, none dropped, none added, and
\* when it returns the pair each row carries an ANALISE, a GRAVIDADE among
\* OK, INFO, ERRO and a TIPO_PASSO.
C11_RegistrosDoMes ==
    pc = "retorno" =>
        /\ Len(df_mes) = Cardinality({i \in DOMAIN df_mov : df_mov[i].ANO_MES = meses[i_mes]})
        /\ \A k \in DOMAIN df_mes :
              /\ df_mes[k].IDX \in DOMAIN df_mov
              /\ df_mes[k].ANO_MES = meses[i_mes]
              /\ df_mov[df_mes[k].IDX] =
                     Linha(df_mes[k].NOME, df_mes[k].PLANO, df_mes[k].ANO_MES,
                           df_mes[k].COD, df_mes[k].MOV)
              /\ \A j \in DOMAIN df_mes : j < k => df_mes[j].IDX < df_mes[k].IDX
        /\ retorno = "tupla" =>
              \A k \in DOMAIN df_mes :
                  /\ df_mes[k].GRAVIDADE \in {"OK", "INFO", "ERRO"}
                  /\ df_mes[k].ANALISE.prefixo \in {"OK", "INFO", "ERRO"}
                  /\ df_mes[k].TIPO_PASSO \in {"Indefinido", "0. Independente", "1. Inicio",
                                                "2. Intermediario", "3. Fim"}

\* a month returned two annotated rows while df_mov also holds a row of
\* another month
C11_Witness ==
    /\ MesRetornou
    /\ Len(df_mes) = 2
    /\ \E i \in DOMAIN df_mov : df_mov[i].ANO_MES # meses[i_mes]
    /\ \E k \in DOMAIN df_mes : df_mes[k].GRAVIDADE = "INFO" /\ df_mes[k].TIPO_PASSO = "3. Fim"

\* C12: after the normalisation of main, at most one record remains for each
\* (participant key, benefit code, direction), the key being the organisation
\* with the formatted name, and that record is of the earliest month in which
\* a valid uploaded row has that key, code and direction.
C12_UmRegistroPorChave ==
    pc_carga = "carregado" =>
        /\ \A i, j \in DOMAIN df_dados :
              (/\ df_dados[i].CODIGO_ORGANIZACAO_NOME = df_dados[j].CODIGO_ORGANIZACAO_NOME
               /\ df_dados[i].COD = df_dados[j].COD
               /\ df_dados[i].MOV = df_dados[j].MOV) => i = j
        /\ \A i \in DOMAIN df_dados :
              \A k \in DOMAIN df_bruto :
                  (/\ df_bruto[k].NOME # NaN
                   /\ df_bruto[k].COD.numerico
                   /\ <<df_bruto[k].CODIGO_ORG, title(strip(df_bruto[k].NOME))>>
                          = df_dados[i].CODIGO_ORGANIZACAO_NOME
                   /\ df_bruto[k].COD.v = df_dados[i].COD
                   /\ df_bruto[k].MOV = df_dados[i].MOV)
                  => df_dados[i].ANO_MES <= df_bruto[k].ANO_MES.v

\* C13: a second classification of the same month of the same records returns
\* the same annotated records and the same stats as the first: when the
\* period calls the month it has just analysed, the call returns the frame the
\* earlier call returned and the stats the earlier call returned.
C13_SegundaClassificacaoIgual ==
    (MesRetornou /\ i_mes > 1 /\ meses[i_mes - 1] = meses[i_mes]) =>
        /\ dfs # <<>>
        /\ df_mes = dfs[Len(dfs)]
        /\ stats = stats_mes

\* the second call of a month with an ERRO group and an OK group has returned
C13_Witness ==
    /\ MesRetornou
    /\ i_mes = 2
    /\ meses[1] = meses[2]
    /\ stats.erros = 1
    /\ stats.ok = 1
    /\ \E k \in DOMAIN df_mes : df_mes[k].GRAVIDADE = "ERRO"

\* the loop of analisar_movimentacoes_mes run over the groups in the order of
\* the sequence ordem
RECURSIVE ProcessarNaOrdem(_, _, _)
ProcessarNaOrdem(df, st, ordem) ==
    IF ordem = <<>> THEN [df |-> df, st |-> st]
    ELSE LET r == CorpoGrupo(df, st, Grupo(df, Head(ordem)))
         IN ProcessarNaOrdem(r.df, r.st, Tail(ordem))

OrdensDe(S) ==
    {o \in [1..Cardinality(S) -> S] : \A i, j \in 1..Cardinality(S) : i # j => o[i] # o[j]}

\* what a month returns is what every order of its groups gives
C14_QualquerOrdem ==
    MesRetornou =>
        LET inicio == FiltrarMes(df_mov, meses[i_mes])
        IN \A o \in OrdensDe(NomesDoMes) :
              ProcessarNaOrdem(inicio, stats_iniciais(Cardinality(NomesDoMes)), o)
                 = [df |-> df_mes, st |-> stats]

\* an iteration leaves the rows of the other groups as they were
C14_OutrosGruposIntactos ==
    (pc = "grupos" /\ fila # <<>>) =>
        /\ DOMAIN df_mes' = DOMAIN df_mes
        /\ \A k \in DOMAIN df_mes : df_mes[k].NOME # Head(fila) => df_mes'[k] = df_mes[k]

\* C14: the annotations and the stats a month returns do not depend on the
\* order in which its groups are processed, and the iteration of one group
\* never changes ANALISE, GRAVIDADE or TIPO_PASSO of a row of another group.
C14_OrdemDosGruposIrrelevante ==
    /\ []C14_QualquerOrdem
    /\ [][C14_OutrosGruposIntactos]_vars

\* a month of two groups, the first ERRO and the second not, has returned
C14_Witness ==
    /\ MesRetornou
    /\ Cardinality(NomesDoMes) = 2
    /\ GrupoTemGravidade(1, "ERRO")
    /\ GrupoTemGravidade(2, "INFO")

\* the codes the constants, the companion sets of the consolidator checks and
\* the pairs of regras_validas refer to
CodigosReferenciados ==
    CODIGOS_RUIDO_SAIDA \cup CODIGOS_ADMISSAO \cup CODIGOS_ATIVOS
        \cup CODIGOS_ENTRADA_INDEPENDENTE
        \cup codigos_aposentados \cup codigos_instituto
        \cup {r[1] : r \in regras_validas} \cup {r[2] : r \in regras_validas}

\* C15: the classifier never runs with a configuration that refers to a code
\* outside the catalog: every code of the noise codes, of the companion sets
\* of the consolidator checks and of the rule pairs is a catalog code.
C15_ConfiguracaoSoComCodigosDoCatalogo ==
    pc \in {"periodo", "grupos", "retorno", "fim"} => CodigosReferenciados \subseteq Catalogo

\* C16: a group with a plan whose ENTRADA rows hold more than one active code
\* ends as ERRO on all its rows, and a month made of such groups only counts
\* each of them once, as an error.
C16_MultiplosAtivosFicaErro ==
    MesRetornou =>
        /\ \A n \in NomesDoMes :
              PlanosComMultiplosAtivos(df_mes, Grupo(df_mes, n)) # {}
                 => GrupoTemGravidade(n, "ERRO")
        /\ (\A n \in NomesDoMes : PlanosComMultiplosAtivos(df_mes, Grupo(df_mes, n)) # {})
              => stats = [total |-> Cardinality(NomesDoMes), erros |-> Cardinality(NomesDoMes),
                          info |-> 0, ok |-> 0]

\* the codes of the catalog whose TIPO is Consolidador
Consolidadores == {31000, 32000, 33000}

CodigosDe(n) == EntradasDe(n) \cup SaidasDe(n)

\* C17: a group in which a Consolidador code appears without a companion is
\* ERRO: a group with no other code than 31000, a group with 32000 and no
\* retirement code, a group with 33000 and no 14000; and a group that is not
\* ERRO has 14000 among its entries exactly when 33000 is, and among its exits
\* exactly when 33000 is.
C17_ConsolidadorSemCompanhiaErro ==
    MesRetornou =>
        \A n \in NomesDoMes :
            /\ (\E c \in Consolidadores : CodigosDe(n) = {c}) => GrupoTemGravidade(n, "ERRO")
            /\ (32000 \in CodigosDe(n) /\ CodigosDe(n) \cap codigos_aposentados = {})
                  => GrupoTemGravidade(n, "ERRO")
            /\ (33000 \in CodigosDe(n) /\ 14000 \notin CodigosDe(n))
                  => GrupoTemGravidade(n, "ERRO")
            /\ ~GrupoTemGravidade(n, "ERRO") =>
                  /\ (14000 \in EntradasDe(n) <=> 33000 \in EntradasDe(n))
                  /\ (14000 \in SaidasDe(n) <=> 33000 \in SaidasDe(n))

\* the exit codes of the group of n that are not non-independent entry codes
SaidasBrutasDe(n) ==
    SaidasDe(n) \ (EntradasDe(n) \ (CODIGOS_ENTRADA_INDEPENDENTE \cup {34000}))

\* C18: the noise codes leave the net exits only when the raw net exits hold
\* more than one code: in a group that reaches the stage tags, a SAIDA row is
\* tagged as a start exactly when its code is a raw net exit and either it
\* is the only one or it is not a noise code.
C18_RuidoSoComMultiplasSaidas ==
    MesRetornou =>
        \A n \in NomesDoMes :
            Validacoes(EntradasDe(n), SaidasDe(n)) = MsgVazia =>
                \A i \in Grupo(df_mes, n) :
                    df_mes[i].MOV = "SAIDA" =>
                        (df_mes[i].TIPO_PASSO = "1. Inicio"
                            <=> /\ df_mes[i].COD \in SaidasBrutasDe(n)
                                /\ \/ Cardinality(SaidasBrutasDe(n)) = 1
                                   \/ df_mes[i].COD \notin CODIGOS_RUIDO_SAIDA)

\* a group whose only raw net exit is a noise code, tagged as a start, beside
\* an entry
C18_Witness ==
    /\ MesRetornou
    /\ \E n \in NomesDoMes :
          /\ SaidasBrutasDe(n) = {31200}
          /\ EntradasDe(n) # {}
          /\ \E i \in Grupo(df_mes, n) :
                df_mes[i].COD = 31200 /\ df_mes[i].MOV = "SAIDA" /\ df_mes[i].TIPO_PASSO = "1. Inicio"

\* the net exits of the group of n after the noise filter
SaidasLiquidasDe(n) ==
    IF Cardinality(SaidasBrutasDe(n)) > 1
    THEN SaidasBrutasDe(n) \ CODIGOS_RUIDO_SAIDA
    ELSE SaidasBrutasDe(n)

\* C19: a group whose net exits after the noise filter hold more than one
\* code is ERRO on all its rows whatever its entries, and when no validation
\* stopped it the message on all its rows is the one of the multiple final
\* exits, listing exactly those codes.
C19_MultiplasSaidasErro ==
    MesRetornou =>
        \A n \in NomesDoMes :
            Cardinality(SaidasLiquidasDe(n)) > 1 =>
                /\ GrupoTemGravidade(n, "ERRO")
                /\ Validacoes(EntradasDe(n), SaidasDe(n)) = MsgVazia =>
                      \A i \in Grupo(df_mes, n) :
                          /\ df_mes[i].ANALISE.prefixo = "ERRO"
                          /\ df_mes[i].ANALISE.texto =
                                "Participante tem multiplas saidas finais no mesmo mes ({saidas})"
                          /\ Range(df_mes[i].ANALISE.args) = SaidasLiquidasDe(n)

\* two net exits beside an entry that one of them could lawfully lead to
C19_Witness ==
    /\ MesRetornou
    /\ \E n \in NomesDoMes :
          /\ SaidasLiquidasDe(n) = {11100, 22000}
          /\ EntradasDe(n) = {15000}
          /\ GrupoTemGravidade(n, "ERRO")

\* the net entries of the group of n: the entry codes that are neither
\* independent codes nor exit codes
EntradasLiquidasDe(n) ==
    (EntradasDe(n) \ (CODIGOS_ENTRADA_INDEPENDENTE \cup {34000})) \ SaidasDe(n)

\* C20: a group with at most one net exit and more than one net entry, other
\* than the composite 31200 -> (21000 + 31300), is ERRO on all its rows.
C20_MultiplasEntradasErro ==
    MesRetornou =>
        \A n \in NomesDoMes :
            (/\ Cardinality(SaidasLiquidasDe(n)) <= 1
             /\ Cardinality(EntradasLiquidasDe(n)) > 1
             /\ ~(SaidasLiquidasDe(n) = {31200} /\ EntradasLiquidasDe(n) = {21000, 31300}))
            => GrupoTemGravidade(n, "ERRO")

\* C21: a group whose exit codes are {31200} and whose entry codes are
\* {21000, 31300} is OK with the message of the accepted composite
\* transition on all its rows.
C21_TransicaoCompostaAceita ==
    MesRetornou =>
        \A n \in NomesDoMes :
            (SaidasDe(n) = {31200} /\ EntradasDe(n) = {21000, 31300}) =>
                /\ GrupoTemGravidade(n, "OK")
                /\ GrupoTemAnalise(n, Msg("OK", "Transicao aceita 31200 -> (21000 + 31300)", <<>>))

\* the group of n passes the guards of the active situations, of the pension
\* with lump sum and of the consolidator dependencies
PassaGuardas(n) ==
    /\ PlanosComMultiplosAtivos(df_mes, Grupo(df_mes, n)) = {}
    /\ Validacoes(EntradasDe(n), SaidasDe(n)) = MsgVazia

\* C22: a group that passes the guards, with no net exit and at least one
\* net entry, is INFO on all its rows, with the message of the process in
\* progress or of the new admission; it is neither OK nor ERRO.
C22_SoEntradasInfo ==
    MesRetornou =>
        \A n \in NomesDoMes :
            (/\ PassaGuardas(n)
             /\ SaidasLiquidasDe(n) = {}
             /\ EntradasLiquidasDe(n) # {}) =>
                /\ GrupoTemGravidade(n, "INFO")
                /\ \/ GrupoTemAnalise(n, Msg("INFO", "Processo em andamento", <<>>))
                   \/ GrupoTemAnalise(n, Msg("INFO", "Nova admissao no Plano 5", <<>>))

\* C23: a group that passes the guards, with exactly one net exit and no net
\* entry, is INFO awaiting conclusion or, with the consolidator exit that
\* matches the exiting code, OK; it is never ERRO.
C23_SoUmaSaidaNuncaErro ==
    MesRetornou =>
        \A n \in NomesDoMes :
            (/\ PassaGuardas(n)
             /\ Cardinality(SaidasLiquidasDe(n)) = 1
             /\ EntradasLiquidasDe(n) = {}) =>
                \/ GrupoTemAnalise(n, Msg("INFO", "Processo em andamento (aguardando conclusao)", <<>>))
                      /\ GrupoTemGravidade(n, "INFO")
                \/ GrupoTemAnalise(n, Msg("OK", "Saida correta com lancamento consolidador correspondente", <<>>))
                      /\ GrupoTemGravidade(n, "OK")
                      /\ \/ SaidasLiquidasDe(n) \cap {11100, 11200} # {} /\ 32000 \in SaidasDe(n)
                         \/ 14000 \in SaidasLiquidasDe(n) /\ 33000 \in SaidasDe(n)

\* C24: in every group, whatever its verdict, a SAIDA row of a net exit is
\* tagged as a start, an ENTRADA row of a net entry as an end, an ENTRADA row
\* of an independent code as independent, and a row of a code that is both a
\* non-independent entry and an exit as intermediate.
C24_PassosIndependentesDoVeredito ==
    MesRetornou =>
        \A n \in NomesDoMes :
            \A i \in Grupo(df_mes, n) :
                /\ (df_mes[i].MOV = "SAIDA" /\ df_mes[i].COD \in SaidasLiquidasDe(n))
                      => df_mes[i].TIPO_PASSO = "1. Inicio"
                /\ (df_mes[i].MOV = "ENTRADA" /\ df_mes[i].COD \in EntradasLiquidasDe(n))
                      => df_mes[i].TIPO_PASSO = "3. Fim"
                /\ (/\ df_mes[i].MOV = "ENTRADA"
                    /\ df_mes[i].COD \in CODIGOS_ENTRADA_INDEPENDENTE \cup {34000})
                      => df_mes[i].TIPO_PASSO = "0. Independente"
                /\ (/\ df_mes[i].COD \in SaidasDe(n) \cap EntradasDe(n)
                    /\ df_mes[i].COD \notin CODIGOS_ENTRADA_INDEPENDENTE \cup {34000})
                      => df_mes[i].TIPO_PASSO = "2. Intermediario"

\* C25: on every row a month returns, GRAVIDADE and ANALISE agree: ERRO with
\* a message that starts with "ERRO:", INFO with one that starts with "INFO:",
\* OK with "OK" or a message that starts with "OK:".
C25_GravidadeConcordaComAnalise ==
    MesRetornou =>
        \A k \in DOMAIN df_mes :
            /\ df_mes[k].GRAVIDADE = "ERRO" <=> df_mes[k].ANALISE.prefixo = "ERRO"
            /\ df_mes[k].GRAVIDADE = "INFO" <=> df_mes[k].ANALISE.prefixo = "INFO"
            /\ df_mes[k].GRAVIDADE = "OK" <=> df_mes[k].ANALISE.prefixo = "OK"

\* a month returned the rows of an exits-only group awaiting conclusion
C25_Witness ==
    /\ MesRetornou
    /\ \E k \in DOMAIN df_mes :
          /\ df_mes[k].GRAVIDADE = "INFO"
          /\ df_mes[k].MOV = "SAIDA"
          /\ df_mes[k].ANALISE = Msg("INFO", "Processo em andamento (aguardando conclusao)", <<>>)

\* C26: a group with a raw net exit or with a net entry never ends with the
\* default result, ANALISE 'OK' and GRAVIDADE 'OK' on all its rows.
C26_SemPassagemDireta ==
    MesRetornou =>
        \A n \in NomesDoMes :
            (SaidasBrutasDe(n) # {} \/ EntradasLiquidasDe(n) # {}) =>
                ~(GrupoTemAnalise(n, MsgOK) /\ GrupoTemGravidade(n, "OK"))

\* C27: for a period of a single month, the stats the period returns are the
\* stats analisar_movimentacoes_mes returned for that month.
C27_PeriodoDeUmMesIgualAoMes ==
    (pc = "fim" /\ Len(meses) = 1) => stats_periodo = stats_mes

\* the (participant, plan, code, direction, severity, message) of the rows of
\* a frame
Vereditos(df) ==
    {<<df[k].NOME, df[k].PLANO, df[k].COD, df[k].MOV, df[k].GRAVIDADE, df[k].ANALISE>> :
        k \in DOMAIN df}

\* what analisar_movimentacoes_mes returns for the frame df and the month mes
ResultadoDoMes(df, mes) ==
    LET inicio == FiltrarMes(df, mes)
        nomes  == sorted({inicio[k].NOME : k \in DOMAIN inicio})
    IN ProcessarNaOrdem(inicio, stats_iniciais(Len(nomes)), nomes).df

\* C28: the severity and the message of the rows of a group depend only on
\* the set of its (plan, code, direction): the month returns the same
\* severities and messages for the input with its rows in any other order and
\* for the input with any one row repeated.
C28_VereditoSoDependeDoConjunto ==
    MesRetornou =>
        /\ \A p \in OrdensDe(DOMAIN df_mov) :
              Vereditos(ResultadoDoMes(Selecionar(df_mov, p), meses[i_mes])) = Vereditos(df_mes)
        /\ \A k \in DOMAIN df_mov :
              Vereditos(ResultadoDoMes(Append(df_mov, df_mov[k]), meses[i_mes])) = Vereditos(df_mes)

\* the sets of at most MaxConj codes
ConjuntosDeCodigos ==
    UNION {{Range(f) : f \in [1..j -> Range(CodigosDeEntrada)]} : j \in 0..MaxConj}

\* some group with at most MaxConj entry codes and MaxConj exit codes passes
\* the validations and gets the valid-transition OK of the pair r
RegraUsavel(r) ==
    \E E \in ConjuntosDeCodigos :
        \E X \in ConjuntosDeCodigos :
            /\ Validacoes(E, X) = MsgVazia
            /\ Terminal(E, X, 1, StatsZero).msg =
                  Msg("OK", "Transicao valida {origem} -> {destino}",
                      <<get_descricao(r[1]), get_descricao(r[2])>>)

\* C29: every pair of regras_validas that the no-return override does not
\* cover is the valid transition of some group the classifier can be given.
C29_TodaRegraUsavel ==
    pc \in {"periodo", "grupos", "retorno", "fim", "excecao"} =>
        \A r \in regras_validas : ~SemRetorno(r[1], r[2]) => RegraUsavel(r)

\* C30: the bytes the download button offers were generated from the view
\* that is selected: what they show is what the selected view would
\* generate.
C30_DownloadDaVisaoSelecionada ==
    download.oferecido =>
        download.data = gerar_pdf_relatorio_visual(df_dados, visao_stats, ano_sel, mes_sel)

====
